---- MODULE Spec2Model ----
(***************************************************************************)
(* Model of getresults_tx/event_handlers.py: BaseEventHandler and          *)
(* RemoteFolderEventHandler (watch a folder, copy each new file to a       *)
(* remote folder over scp, archive or delete the original, write a History *)
(* record).                                                                *)
(*                                                                         *)
(* Python strings are sequences of one-character strings, so that split,   *)
(* join and tuple unpacking act on them as they do in Python.  Python      *)
(* values are tagged records: [kind |-> "None"], [kind |-> "str", ...],    *)
(* [kind |-> "tuple", ...], [kind |-> "dict", ...].                        *)
(***************************************************************************)
EXTENDS Integers, Sequences, FiniteSets, TLC

\* ---------------------------------------------------------------- bounds
\* number of file-system changes made by other processes in one run
MaxChanges == 2

\* ---------------------------------------------------------------- values
NoneVal == [kind |-> "None"]

PyStr(cs) == [kind |-> "str", chars |-> cs]

PyTuple(xs) == [kind |-> "tuple", items |-> xs]

NoExc == [type |-> "none", args |-> <<>>]

Exc(t, a) == [type |-> t, args |-> a]

\* models.TX_SENT
TX_SENT == "sent"

\* ------------------------------------------------------- the environment
\* file names that appear in the watched folder
FileNames == { <<"r", ".", "c">>, <<"n">> }

\* what magic.from_file can report
Mimes == { "text/csv", "application/pdf" }

\* the five characters random.SystemRandom().choice can produce
Suffixes == { <<"A", "A", "A", "A", "A">>, <<"Z", "9", "Q", "0", "B">> }

\* handler attributes set by the deployment
source_dir == <<"/", "w">>

destination_dir == <<"/", "r", "/", "i", "n">>

ArchiveDir == <<"/", "a">>

hostname == <<"h">>

user == <<"u">>

\* a sub folder a routing strategy can select, and the hint it returns
SubDir == <<"/", "r", "/", "i", "n", "/", "s">>

Hint == <<"p", "d", "f">>

\* ------------------------------------------------------- string helpers
RECURSIVE SplitFrom(_, _, _)
\* str.split(sep): the pieces of s between occurrences of sep;
\* acc is the piece being read
SplitFrom(s, sep, acc) ==
    IF s = <<>> THEN << acc >>
    ELSE IF Head(s) = sep
         THEN << acc >> \o SplitFrom(Tail(s), sep, <<>>)
         ELSE SplitFrom(Tail(s), sep, Append(acc, Head(s)))

Split(s, sep) == SplitFrom(s, sep, <<>>)

Last(seq) == seq[Len(seq)]

\* os.path.join(d, f) for a relative f: d gets a "/" unless it ends in one
PathJoin(d, f) ==
    IF d = <<>> THEN f
    ELSE IF Last(d) = "/" THEN d \o f
    ELSE d \o <<"/">> \o f

\* event.src_path.split('/')[-1:][0]
BaseName(path) == Last(Split(path, "/"))

\* fnmatch of a path against '*.*': some '.' occurs in it
MatchesPatterns(path) == \E i \in 1..Len(path) : path[i] = "."

\* ------------------------------------------------- functions of the code
\* archive_filename splitting at the first '.' only: filename.split('.', 1)
archive_filename_mut(filename, suffix) ==
    LET dots == { i \in 1..Len(filename) : filename[i] = "." }
        d    == IF dots = {} THEN 0 ELSE CHOOSE i \in dots : \A j \in dots : i <= j
        f    == IF d = 0 THEN filename ELSE SubSeq(filename, 1, d - 1)
        ext  == IF d = 0 THEN <<>> ELSE SubSeq(filename, d + 1, Len(filename))
    IN  (f \o <<"_">> \o suffix) \o <<".">> \o ext

\* RemoteFolderEventHandler.archive_filename, for the suffix drawn
archive_filename(filename, suffix) ==
    LET parts == Split(filename, ".")
        f     == IF Len(parts) = 2 THEN parts[1] ELSE filename
        ext   == IF Len(parts) = 2 THEN parts[2] ELSE <<>>
    IN  (f \o <<"_">> \o suffix) \o <<".">> \o ext

\* the routing strategies a deployment can plug in as folder_handler.select
Strategies == { "absent", "bare", "pair", "faulty", "broken" }

\* folder_handler.select(self, filename, mime_type, base_path): what the call
\* returns or raises.  "absent": select is not a callable, Python raises
\* TypeError("'NoneType' object is not callable").  "faulty" and "broken" are
\* strategies with a bug in their body; the bug of "broken" is a call of a
\* str, TypeError("'str' object is not callable")
FolderHandlerSelect(strategy, filename, mt, base_path) ==
    CASE strategy = "absent" ->
           [exc |-> Exc("TypeError", <<"'NoneType'", "object is not callable">>),
            value |-> NoneVal]
      [] strategy = "bare" ->
           [exc |-> NoExc, value |-> PyStr(SubDir)]
      [] strategy = "pair" ->
           [exc |-> NoExc, value |-> PyTuple(<< PyStr(SubDir), PyStr(Hint) >>)]
      [] strategy = "faulty" ->
           [exc |-> Exc("KeyError", <<"select">>), value |-> NoneVal]
      [] strategy = "broken" ->
           [exc |-> Exc("TypeError", <<"'str'", "object is not callable">>),
            value |-> NoneVal]

\* isinstance(selection, (list, tuple)) ? selection[0] : selection
LeadingDir(selection) ==
    IF selection.kind = "tuple" THEN selection.items[1] ELSE selection

\* 'text' in str(e): the message of e has text as one of its parts
InMessage(text, e) == \E i \in 1..Len(e.args) : e.args[i] = text

\* select_destination_dir handing on the leading directory of a selection
select_destination_dir_mut(strategy, filename, mt) ==
    LET r == FolderHandlerSelect(strategy, filename, mt, destination_dir)
    IN  IF r.exc = NoExc THEN [exc |-> NoExc, value |-> LeadingDir(r.value)]
        ELSE IF r.exc.type = "TypeError" /\ InMessage("object is not callable", r.exc)
             THEN [exc |-> NoExc, value |-> PyStr(destination_dir)]
             ELSE r

\* RemoteFolderEventHandler.select_destination_dir
select_destination_dir(strategy, filename, mt) ==
    LET r == FolderHandlerSelect(strategy, filename, mt, destination_dir)
    IN  IF r.exc = NoExc THEN r
        ELSE IF r.exc.type = "TypeError" /\ InMessage("object is not callable", r.exc)
             THEN [exc |-> NoExc, value |-> PyStr(destination_dir)]
             ELSE r

\* "a, b = v": the two items of a two-item iterable; a str iterates over its
\* characters; any other length raises ValueError
Unpack2(v) ==
    CASE v.kind = "tuple" /\ Len(v.items) = 2 ->
           [exc |-> NoExc, a |-> v.items[1], b |-> v.items[2]]
      [] v.kind = "str" /\ Len(v.chars) = 2 ->
           [exc |-> NoExc, a |-> PyStr(<< v.chars[1] >>), b |-> PyStr(<< v.chars[2] >>)]
      [] v.kind \in {"tuple", "str"} ->
           [exc |-> Exc("ValueError", <<"unpack">>), a |-> NoneVal, b |-> NoneVal]
      [] OTHER ->
           [exc |-> Exc("TypeError", <<"not iterable">>), a |-> NoneVal, b |-> NoneVal]

\* update_history storing the name of the transferred file as archive name
HistoryRow_mut(fileinfo, status, selection, mt, archive, clock) ==
    [ remote_hostname    |-> hostname,
      path               |-> source_dir,
      remote_path        |-> destination_dir,
      remote_folder      |-> PyStr(Last(Split(LeadingDir(selection).chars, "/"))),
      remote_folder_hint |-> NoneVal,
      archive_path       |-> archive,
      filename           |-> fileinfo.filename,
      filetimestamp      |-> fileinfo.timestamp,
      mime_type          |-> mt,
      status             |-> status,
      sent_datetime      |-> clock,
      user               |-> user,
      archive            |-> IF archive # NoneVal
                             THEN PyStr(<<"a", "r", "c", "h", "i", "v", "e", "/">>
                                        \o fileinfo.filename)
                             ELSE NoneVal ]

\* the History row update_history builds and saves
HistoryRow(fileinfo, status, selection, mt, archive, clock) ==
    LET u   == Unpack2(selection)
        dd  == IF u.exc = NoExc THEN u.a ELSE selection
        fh  == IF u.exc = NoExc THEN u.b ELSE NoneVal
        rf  == IF dd.kind = "str" THEN PyStr(Last(Split(dd.chars, "/")))
               ELSE PyStr(<<"d", "e", "f", "a", "u", "l", "t">>)
    IN  [ remote_hostname    |-> hostname,
          path               |-> source_dir,
          remote_path        |-> destination_dir,
          remote_folder      |-> rf,
          remote_folder_hint |-> fh,
          archive_path       |-> archive,
          filename           |-> fileinfo.filename,
          filetimestamp      |-> fileinfo.timestamp,
          mime_type          |-> mt,
          status             |-> status,
          sent_datetime      |-> clock,
          user               |-> user,
          archive            |-> IF archive # NoneVal
                                 THEN PyStr(<<"a", "r", "c", "h", "i", "v", "e", "/">>
                                            \o fileinfo.archive_filename)
                                 ELSE NoneVal ]

\* ------------------------------------------------------------ the state
VARIABLES
    archive_dir,   \* self.archive_dir: NoneVal or a str
    mime_types,    \* self.mime_types: NoneVal or [kind |-> "set", items |-> ...]
    strategy,      \* what folder_handler.select is
    src,           \* the watched folder: file name -> NoFile or a file
    dst,           \* the remote side: path -> NoFile, a file or a directory
    arch,          \* the archive folder: archive name -> NoFile or a file
    history,       \* the History table, in insertion order
    queue,         \* events watchdog has observed and not yet dispatched
    clock,         \* timezone.now(): number of the event being handled
    pc,            \* where process_added stands
    event,         \* the event process_added was called with
    ssh_opened,    \* sessions opened by connect()
    ssh_result,    \* how ssh.connect ended in this event
    mime_type,     \* local of process_added
    putret,        \* what put returned to process_added
    scp_result,    \* how scp.put ended in this event
    fileinfo,      \* local of process_added
    raised,        \* what the last handler call raised to watchdog
    failed,        \* the types of the exceptions handler calls have raised so far
    printed,       \* the last lines process / process_added printed
    ssh_open,      \* sessions opened by connect() and not closed since
    rules,         \* the RemoteFolder rows (routing rules) in the database
    dscache,       \* self._destination_subdirs
    lookups,       \* RemoteFolder.objects.filter calls made so far
    ret,           \* what the last direct call of a handler method returned
    nchanges       \* changes made by other processes so far

vars == << archive_dir, mime_types, strategy, src, dst, arch, history, queue,
           clock, pc, event, ssh_opened, ssh_result, mime_type, putret,
           scp_result, fileinfo, raised, failed, printed, ssh_open, rules,
           dscache, lookups, ret, nchanges >>

config == << archive_dir, mime_types, strategy >>

locals == << event, ssh_result, mime_type, putret, scp_result, fileinfo >>

api == << rules, dscache, lookups, ret >>

NoFile == [kind |-> "absent"]

File(mt, mtime) == [kind |-> "file", mime |-> mt, mtime |-> mtime]

Dir == [kind |-> "dir"]

NoEvent == [event_type |-> "none", src_path |-> <<>>]

Event(t, f) == [event_type |-> t, src_path |-> PathJoin(source_dir, f)]

DestPaths == { PathJoin(d, f) : d \in {destination_dir, SubDir}, f \in FileNames }

ArchiveNames == { archive_filename(f, x) : f \in FileNames, x \in Suffixes }

MimeTypeSets == {NoneVal} \cup { [kind |-> "set", items |-> S] : S \in SUBSET Mimes }

NoPrint == [event_type |-> "none", src_path |-> <<>>, nothing_to_do |-> FALSE]

\* self._destination_subdirs = {} (line 91)
NoCache == [kind |-> "dict", items |-> {}]

NoCall == [fn |-> "none"]

Init ==
    /\ archive_dir \in {NoneVal, PyStr(ArchiveDir)}
    /\ mime_types \in MimeTypeSets
    /\ strategy \in Strategies
    /\ src = [f \in FileNames |-> NoFile]
    /\ \E D \in {{}} \cup { {p} : p \in DestPaths } :
          dst = [p \in DestPaths |-> IF p \in D THEN Dir ELSE NoFile]
    /\ arch = [a \in ArchiveNames |-> NoFile]
    /\ history = <<>>
    /\ queue = <<>>
    /\ clock = 0
    /\ pc = "idle"
    /\ event = NoEvent
    /\ ssh_opened = 0
    /\ ssh_result = "notcalled"
    /\ mime_type = NoneVal
    /\ putret = [kind |-> "notcalled"]
    /\ scp_result = "notcalled"
    /\ fileinfo = NoneVal
    /\ raised = NoExc
    /\ failed = {}
    /\ printed = NoPrint
    /\ ssh_open = 0
    /\ rules = {}
    /\ dscache = NoCache
    /\ lookups = 0
    /\ ret = NoCall
    /\ nchanges = 0

\* ------------------------------------------ other processes on the folder
handler == << pc, clock, ssh_opened, ssh_open, raised, failed, printed, history, dst, arch >>

\* a process writes a new file into the watched folder
CreateFile(f, mt) ==
    /\ nchanges < MaxChanges
    /\ src[f] = NoFile
    /\ src' = [src EXCEPT ![f] = File(mt, nchanges + 1)]
    /\ queue' = Append(queue, Event("created", f))
    /\ nchanges' = nchanges + 1
    /\ UNCHANGED << api, config, locals, handler >>

\* a process rewrites a file of the watched folder
ModifyFile(f, mt) ==
    /\ nchanges < MaxChanges
    /\ src[f] # NoFile
    /\ src' = [src EXCEPT ![f] = File(mt, nchanges + 1)]
    /\ queue' = Append(queue, Event("modified", f))
    /\ nchanges' = nchanges + 1
    /\ UNCHANGED << api, config, locals, handler >>

\* a process deletes a file of the watched folder
DeleteFile(f) ==
    /\ nchanges < MaxChanges
    /\ src[f] # NoFile
    /\ src' = [src EXCEPT ![f] = NoFile]
    /\ queue' = Append(queue, Event("deleted", f))
    /\ nchanges' = nchanges + 1
    /\ UNCHANGED << api, config, locals, handler >>

\* a process renames a file of the watched folder
MoveFile(f, g) ==
    /\ nchanges < MaxChanges
    /\ f # g
    /\ src[f] # NoFile
    /\ src' = [src EXCEPT ![f] = NoFile, ![g] = src[f]]
    /\ queue' = Append(queue, Event("moved", f))
    /\ nchanges' = nchanges + 1
    /\ UNCHANGED << api, config, locals, handler >>

\* ------------------------------------------------------------ the handler
\* how ssh.connect(hostname, timeout) can end
ConnectOutcomes == { "ok", "AuthenticationException", "BadHostKeyException" }

\* BaseEventHandler.connect: what it raises for an outcome of ssh.connect.
\* paramiko's BadHostKeyException.__init__(self, hostname, got_key,
\* expected_key) takes three arguments; line 79 calls it with one string, so
\* building the exception to raise is itself a TypeError
connect(outcome) ==
    CASE outcome = "ok" -> NoExc
      [] outcome = "AuthenticationException" ->
           Exc("AuthenticationException", << user, hostname >>)
      [] outcome = "BadHostKeyException" ->
           Exc("TypeError", << "__init__() missing 2 required positional arguments" >>)

\* a policy check that lets every mime type pass
PolicyCheck_mut(mt, mts) ==
    IF mts = NoneVal
    THEN [exc |-> Exc("TypeError", <<"argument of type 'NoneType' is not iterable">>),
          value |-> FALSE]
    ELSE [exc |-> NoExc, value |-> TRUE]

\* line 107: mime_type in self.mime_types or self.mime_types is None.
\* "in" is evaluated first, and "x in None" raises TypeError
PolicyCheck(mt, mts) ==
    IF mts = NoneVal
    THEN [exc |-> Exc("TypeError", <<"argument of type 'NoneType' is not iterable">>),
          value |-> FALSE]
    ELSE [exc |-> NoExc, value |-> mt \in mts.items]

\* RemoteFolderEventHandler.statinfo
statinfo(path, filename, file) ==
    [kind |-> "dict", path |-> path, filename |-> filename, timestamp |-> file.mtime]

\* how scp.put can end for a destination path
ScpOutcomes(dest) ==
    IF dst[dest] = Dir THEN { "IsADirectoryError", "SCPException" }
    ELSE { "ok", "SCPException" }

\* put with a bare "except:" around scp.put
PutRaises_mut(outcome) == FALSE

\* lines 167-173 of put: only IsADirectoryError is caught, every other
\* failure of scp.put leaves put, and process_added, as an exception
PutRaises(outcome) == outcome \notin {"ok", "IsADirectoryError"}

\* put without "fileinfo = None" in its except clause
PutResult_mut(outcome, fi) == fi

\* lines 167-174 of put: the fileinfo put returns for an outcome of scp.put
\* that it does not let propagate
PutResult(outcome, fi) ==
    IF outcome = "IsADirectoryError" THEN NoneVal ELSE fi

\* "else: os.remove(path)" attached to "if fileinfo:"
AfterPut_mut(fi, adir) ==
    IF fi # NoneVal
    THEN IF adir # NoneVal THEN "update_history" ELSE "idle"
    ELSE "remove"

\* lines 110-116: where process_added goes with the fileinfo put returned
AfterPut(fi, adir) ==
    IF fi # NoneVal
    THEN IF adir # NoneVal THEN "update_history" ELSE "remove"
    ELSE "idle"

filename == BaseName(event.src_path)

path == PathJoin(source_dir, filename)

\* process_added ends by raising e
Raise(e) ==
    /\ raised' = e
    /\ failed' = failed \cup {e.type}
    /\ pc' = "idle"

\* on_moved overridden like on_created
EntersPipeline_mut(event_type) == event_type \in {"created", "modified", "moved"}

\* lines 93-99: on_created and on_modified call process_added; on_deleted
\* and on_moved are inherited (lines 59-63) and call process
EntersPipeline(event_type) == event_type \in {"created", "modified"}

\* PatternMatchingEventHandler.dispatch and the on_* methods: created and
\* modified events enter process_added, deleted and moved events reach
\* BaseEventHandler.process, which prints; unmatched paths are dropped
Dispatch ==
    /\ pc = "idle"
    /\ queue # <<>>
    /\ queue' = Tail(queue)
    /\ LET e == Head(queue) IN
         IF MatchesPatterns(e.src_path) /\ EntersPipeline(e.event_type)
         THEN /\ pc' = "connect"
              /\ event' = e
              /\ clock' = clock + 1
              /\ raised' = NoExc
              /\ printed' = [event_type |-> e.event_type, src_path |-> e.src_path,
                             nothing_to_do |-> FALSE]
              /\ ssh_result' = "notcalled"
              /\ mime_type' = NoneVal
              /\ putret' = [kind |-> "notcalled"]
              /\ scp_result' = "notcalled"
              /\ fileinfo' = NoneVal
         ELSE /\ printed' = IF MatchesPatterns(e.src_path)
                            THEN [event_type |-> e.event_type, src_path |-> e.src_path,
                                  nothing_to_do |-> TRUE]
                            ELSE printed
              /\ UNCHANGED << pc, clock, raised, locals >>
    /\ UNCHANGED << api, config, src, dst, arch, history, ssh_opened, ssh_open, failed,
                    nchanges >>

\* line 103: ssh = self.connect()
Connect ==
    /\ pc = "connect"
    /\ \E outcome \in ConnectOutcomes :
         LET e == connect(outcome) IN
           /\ ssh_result' = outcome
           /\ IF e = NoExc
              THEN /\ ssh_opened' = ssh_opened + 1
                   /\ ssh_open' = ssh_open + 1
                   /\ pc' = "classify"
                   /\ UNCHANGED << raised, failed >>
              ELSE /\ Raise(e)
                   /\ UNCHANGED << ssh_opened, ssh_open >>
    /\ UNCHANGED << api, config, printed, src, dst, arch, history, queue, clock, event, mime_type,
                    putret, scp_result, fileinfo, nchanges >>

\* lines 104-107: magic.from_file(path, mime=True), which raises IOError for
\* a path that does not exist, and the policy check
Classify ==
    /\ pc = "classify"
    /\ IF src[filename] = NoFile
       THEN /\ Raise(Exc("IOError", <<"File does not exist">>))
            /\ UNCHANGED mime_type
       ELSE LET mt == src[filename].mime
                ok == PolicyCheck(mt, mime_types)
            IN  /\ mime_type' = mt
                /\ IF ok.exc # NoExc THEN Raise(ok.exc)
                   ELSE /\ pc' = IF ok.value THEN "put" ELSE "idle"
                        /\ UNCHANGED << raised, failed >>
    /\ UNCHANGED << api, config, printed, src, dst, arch, history, queue, clock, ssh_opened, ssh_open,
                    event, ssh_result, putret, scp_result, fileinfo, nchanges >>

\* lines 108-112: put (lines 153-174), the unpacking of its result, and the
\* choice of the archive name
Put ==
    /\ pc = "put"
    /\ LET sel  == select_destination_dir(strategy, filename, mime_type)
           dest == PathJoin(LeadingDir(sel.value).chars, filename)
       IN
       IF sel.exc # NoExc
       THEN /\ Raise(sel.exc)
            /\ UNCHANGED << dst, putret, scp_result, fileinfo >>
       ELSE IF src[filename] = NoFile
       THEN \* put returns None, and "fileinfo, destination_dir = None" raises
            /\ putret' = NoneVal
            /\ Raise(Exc("TypeError", <<"cannot unpack non-iterable NoneType object">>))
            /\ UNCHANGED << dst, scp_result, fileinfo >>
       ELSE \E outcome \in ScpOutcomes(dest), suffix \in Suffixes :
            LET fi == statinfo(source_dir, filename, src[filename]) IN
            /\ scp_result' = outcome
            /\ IF ~PutRaises(outcome)
               THEN   LET r == PutResult(outcome, fi) IN
                      /\ dst' = IF outcome = "ok"
                                THEN [dst EXCEPT ![dest] = src[filename]]
                                ELSE dst
                      /\ putret' = PyTuple(<< r, sel.value >>)
                      /\ fileinfo' = IF r # NoneVal /\ archive_dir # NoneVal
                                     THEN [kind |-> "dict", path |-> r.path,
                                           filename |-> r.filename,
                                           timestamp |-> r.timestamp,
                                           archive_filename |->
                                               archive_filename(filename, suffix)]
                                     ELSE r
                      /\ pc' = AfterPut(r, archive_dir)
                      /\ UNCHANGED << raised, failed >>
               ELSE   /\ Raise(Exc(outcome, <<>>))
                      /\ UNCHANGED << dst, putret, fileinfo >>
    /\ UNCHANGED << api, config, printed, src, arch, history, queue, clock, ssh_opened, ssh_open,
                    event, ssh_result, mime_type, nchanges >>

\* line 113: self.update_history(fileinfo, TX_SENT, destination_dir, mime_type)
UpdateHistory ==
    /\ pc = "update_history"
    /\ LET selection == putret.items[2] IN
         IF Unpack2(selection).exc.type = "TypeError"
         THEN /\ Raise(Unpack2(selection).exc)
              /\ UNCHANGED history
         ELSE /\ history' = Append(history,
                     HistoryRow(fileinfo, TX_SENT, selection, mime_type, archive_dir, clock))
              /\ pc' = "rename"
              /\ UNCHANGED << raised, failed >>
    /\ UNCHANGED << api, config, printed, src, dst, arch, queue, clock, ssh_opened, ssh_open, locals, nchanges >>

\* line 114: os.rename(path, os.path.join(self.archive_dir, archive_filename));
\* watchdog sees the file leave the watched folder
Rename ==
    /\ pc = "rename"
    /\ IF src[filename] = NoFile
       THEN /\ Raise(Exc("FileNotFoundError", <<>>))
            /\ UNCHANGED << src, arch, queue >>
       ELSE /\ src' = [src EXCEPT ![filename] = NoFile]
            /\ arch' = [arch EXCEPT ![fileinfo.archive_filename] = src[filename]]
            /\ queue' = Append(queue, Event("deleted", filename))
            /\ pc' = "idle"
            /\ UNCHANGED << raised, failed >>
    /\ UNCHANGED << api, config, printed, dst, history, clock, ssh_opened, ssh_open, locals, nchanges >>

\* line 116: os.remove(path)
Remove ==
    /\ pc = "remove"
    /\ IF src[filename] = NoFile
       THEN /\ Raise(Exc("FileNotFoundError", <<>>))
            /\ UNCHANGED << src, queue >>
       ELSE /\ src' = [src EXCEPT ![filename] = NoFile]
            /\ queue' = Append(queue, Event("deleted", filename))
            /\ pc' = "idle"
            /\ UNCHANGED << raised, failed >>
    /\ UNCHANGED << api, config, printed, dst, arch, history, clock, ssh_opened, ssh_open, locals, nchanges >>

\* the code never calls ssh.close(); paramiko closes a client's transport
\* when the client object is garbage collected, which can happen once
\* process_added has ended and nothing refers to its local "ssh" any more
Finalize ==
    /\ pc = "idle"
    /\ ssh_open > 0
    /\ ssh_open' = 0
    /\ UNCHANGED << api, config, src, dst, arch, history, queue, clock, pc,
                    ssh_opened, locals, raised, failed, printed, nchanges >>

Next ==
    \/ \E f \in FileNames, mt \in Mimes : CreateFile(f, mt)
    \/ \E f \in FileNames, mt \in Mimes : ModifyFile(f, mt)
    \/ \E f \in FileNames : DeleteFile(f)
    \/ \E f, g \in FileNames : MoveFile(f, g)
    \/ Dispatch
    \/ Connect
    \/ Classify
    \/ Put
    \/ UpdateHistory
    \/ Rename
    \/ Remove
    \/ Finalize

Spec == Init /\ [][Next]_vars

TypeOK ==
    /\ pc \in {"idle", "connect", "classify", "put", "update_history", "rename", "remove"}
    /\ clock \in 0..(MaxChanges + 1)
    /\ ssh_opened <= clock

\* ------------------------------------------- direct calls of the methods
\* bounds of the direct calls
MaxLookups == 3

MaxRows == 1

MaxNameLen == 3

\* string.ascii_uppercase + string.digits
Alphabet == { "A", "B", "C", "D", "E", "F", "G", "H", "I", "J", "K", "L", "M",
              "N", "O", "P", "Q", "R", "S", "T", "U", "V", "W", "X", "Y", "Z",
              "0", "1", "2", "3", "4", "5", "6", "7", "8", "9" }

\* file names archive_filename is called with: with no, one and several '.'
ApiFileNames ==
    UNION { [1..n -> {"a", "."}] : n \in 1..MaxNameLen }

\* RemoteFolder rows for the destination folder
RuleUniverse ==
    { [base_path |-> destination_dir, name |-> <<"p">>, file_hint |-> Hint,
       folder |-> <<"s">>],
      [base_path |-> destination_dir, name |-> <<"q">>, file_hint |-> <<"c", "s", "v">>,
       folder |-> <<"t">>],
      [base_path |-> SubDir, name |-> <<"p">>, file_hint |-> Hint,
       folder |-> <<"u">>] }

\* keys destination_subdir is called with
Keys == { <<"p">>, Hint, <<"q">>, <<"x">>, destination_dir }

\* selections update_history is called with: paths of several lengths,
\* pairs, and tuples that are not pairs
ApiSelections ==
    { PyStr(destination_dir), PyStr(SubDir), PyStr(<<"/", "s">>), PyStr(<<"s">>),
      PyTuple(<< PyStr(SubDir), PyStr(Hint) >>),
      PyTuple(<< PyStr(SubDir) >>),
      PyTuple(<< PyStr(SubDir), PyStr(Hint), PyStr(Hint) >>),
      PyTuple(<< PyTuple(<< PyStr(SubDir) >>), PyStr(Hint) >>) }

Dict(items) == [kind |-> "dict", items |-> items]

\* d.get(k)
DictGet(d, k) ==
    IF \E it \in d.items : it[1] = k
    THEN (CHOOSE it \in d.items : it[1] = k)[2]
    ELSE NoneVal

\* bool(v) of a dict or None
Truthy(v) == v # NoneVal /\ v.items # {}

\* the property destination_subdirs (lines 131-141).  self.remote_folder and
\* self._remote_subfolders are defined nowhere, so the body of the loop
\* raises AttributeError on the first rule
destination_subdirs(cache, rs) ==
    IF ~Truthy(DictGet(cache, destination_dir))
    THEN LET fresh == Dict({ << destination_dir, Dict({}) >> })
             found == { r \in rs : r.base_path = destination_dir }
         IN  [ cache   |-> fresh,
               queries |-> 1,
               exc     |-> IF found # {}
                           THEN Exc("AttributeError", <<"remote_folder">>)
                           ELSE NoExc,
               value   |-> IF found # {} THEN NoneVal ELSE fresh ]
    ELSE [cache |-> cache, queries |-> 0, exc |-> NoExc, value |-> cache]

\* destination_subdir (lines 143-151)
destination_subdir(cache, rs, key) ==
    LET r == destination_subdirs(cache, rs)
    IN  IF r.exc # NoExc THEN r
        ELSE IF \E it \in r.value.items : it[1] = key
             THEN [r EXCEPT !.value = DictGet(r.value, key)]
             ELSE [r EXCEPT !.value = PyStr(destination_dir)]

Called(fn, params, exc, value) ==
    [fn |-> fn, params |-> params, exc |-> exc, value |-> value]

\* handler.destination_subdirs
AccessDestinationSubdirs ==
    /\ lookups < MaxLookups
    /\ LET r == destination_subdirs(dscache, rules) IN
         /\ dscache' = r.cache
         /\ lookups' = lookups + r.queries
         /\ ret' = Called("destination_subdirs", <<>>, r.exc, r.value)
    /\ UNCHANGED << rules, config, src, dst, arch, history, queue, clock, pc, locals,
                    ssh_opened, ssh_open, raised, failed, printed, nchanges >>

\* handler.destination_subdir(key)
CallDestinationSubdir(key) ==
    /\ lookups < MaxLookups
    /\ LET r == destination_subdir(dscache, rules, key) IN
         /\ dscache' = r.cache
         /\ lookups' = lookups + r.queries
         /\ ret' = Called("destination_subdir", << key >>, r.exc, r.value)
    /\ UNCHANGED << rules, config, src, dst, arch, history, queue, clock, pc, locals,
                    ssh_opened, ssh_open, raised, failed, printed, nchanges >>

\* handler.select_destination_dir(filename, mime_type)
CallSelectDestinationDir(f, mt) ==
    /\ LET r == select_destination_dir(strategy, f, mt) IN
         ret' = Called("select_destination_dir", << f, mt >>, r.exc, r.value)
    /\ UNCHANGED << rules, dscache, lookups, config, src, dst, arch, history, queue,
                    clock, pc, locals, ssh_opened, ssh_open, raised, failed, printed,
                    nchanges >>

\* handler.archive_filename(filename), for the suffix drawn
CallArchiveFilename(f, suffix) ==
    /\ ret' = Called("archive_filename", << f >>, NoExc, PyStr(archive_filename(f, suffix)))
    /\ UNCHANGED << rules, dscache, lookups, config, src, dst, arch, history, queue,
                    clock, pc, locals, ssh_opened, ssh_open, raised, failed, printed,
                    nchanges >>

\* the fileinfo the direct calls of update_history pass
ApiFileinfo ==
    [kind |-> "dict", path |-> source_dir, filename |-> <<"r", ".", "c">>,
     timestamp |-> 1,
     archive_filename |-> archive_filename(<<"r", ".", "c">>, <<"A", "A", "A", "A", "A">>)]

\* handler.update_history(fileinfo, TX_SENT, selection, mime_type)
CallUpdateHistory(selection) ==
    /\ Len(history) < MaxRows
    /\ IF Unpack2(selection).exc.type = "TypeError"
       THEN /\ ret' = Called("update_history", << selection >>,
                             Unpack2(selection).exc, NoneVal)
            /\ UNCHANGED history
       ELSE /\ history' = Append(history,
                   HistoryRow(ApiFileinfo, TX_SENT, selection, "text/csv", archive_dir, clock))
            /\ ret' = Called("update_history", << selection >>, NoExc, NoneVal)
    /\ UNCHANGED << rules, dscache, lookups, config, src, dst, arch, queue, clock, pc,
                    locals, ssh_opened, ssh_open, raised, failed, printed, nchanges >>

\* a handler that receives no events: everything the events change is as
\* after construction
Quiet ==
    /\ src = [f \in FileNames |-> NoFile]
    /\ dst = [p \in DestPaths |-> NoFile]
    /\ arch = [a \in ArchiveNames |-> NoFile]
    /\ history = <<>>
    /\ queue = <<>>
    /\ clock = 0
    /\ pc = "idle"
    /\ event = NoEvent
    /\ ssh_opened = 0
    /\ ssh_result = "notcalled"
    /\ mime_type = NoneVal
    /\ putret = [kind |-> "notcalled"]
    /\ scp_result = "notcalled"
    /\ fileinfo = NoneVal
    /\ raised = NoExc
    /\ failed = {}
    /\ printed = NoPrint
    /\ ssh_open = 0
    /\ dscache = NoCache
    /\ lookups = 0
    /\ ret = NoCall
    /\ nchanges = 0

\* the methods select_destination_dir, archive_filename and update_history
\* called directly, for every configuration
InitApi ==
    /\ archive_dir \in {NoneVal, PyStr(ArchiveDir)}
    /\ mime_types = NoneVal
    /\ strategy \in Strategies
    /\ rules = {}
    /\ Quiet

NextApi ==
    \/ \E f \in FileNames, mt \in Mimes : CallSelectDestinationDir(f, mt)
    \/ \E f \in ApiFileNames, suffix \in Suffixes : CallArchiveFilename(f, suffix)
    \/ \E selection \in ApiSelections : CallUpdateHistory(selection)

SpecApi == InitApi /\ [][NextApi]_vars

\* the routing-rule lookups called directly, for every set of rules
InitRouter ==
    /\ archive_dir = NoneVal
    /\ mime_types = NoneVal
    /\ strategy = "absent"
    /\ rules \in SUBSET RuleUniverse
    /\ Quiet

NextRouter ==
    \/ AccessDestinationSubdirs
    \/ \E key \in Keys : CallDestinationSubdir(key)

SpecRouter == InitRouter /\ [][NextRouter]_vars

\* ------------------------------------------------------------ properties
\* the History rows written while handling the current event
EventRows == { i \in 1..Len(history) : history[i].sent_datetime = clock }

\* put returned a file descriptor to process_added
PutSucceeded == putret.kind = "tuple" /\ putret.items[1] # NoneVal

\* the remote path put copied to, once put has returned a selection
DestFilename == PathJoin(LeadingDir(putret.items[2]).chars, filename)

\* the step is one of process_added, and process_added returns with it
Returns == pc # "idle" /\ pc' = "idle" /\ raised' = NoExc

\* the archive name a History row refers to
ArchiveNameOf(row) == SubSeq(row.archive.chars, 9, Len(row.archive.chars))

\* C1: once an event has been handled, a History row exists for it if and
\* only if its put succeeded and returned a file descriptor
C1_AuditIffPutSucceeded ==
    (pc = "idle" /\ clock > 0) =>
        /\ Cardinality(EventRows) <= 1
        /\ (EventRows # {}) <=> PutSucceeded

\* C2: when process_added returns after a successful copy with no archive_dir,
\* the source file is gone, the file is at join(destination_dir, filename),
\* and exactly one History row, SENT and without archive name, was written
C2_DeleteAndAudit ==
    [][ (Returns /\ archive_dir = NoneVal /\ scp_result' = "ok") =>
          /\ src'[filename] = NoFile
          /\ dst'[DestFilename'].kind = "file"
          /\ Cardinality(EventRows') = 1
          /\ \A i \in EventRows' : /\ history'[i].status = TX_SENT
                                   /\ history'[i].filename = filename
                                   /\ history'[i].archive = NoneVal ]_vars

\* C3: when process_added returns after a successful copy with archive_dir
\* set, the source file is gone, it is in the archive under a name
\* archive_filename generates for it, and the History row of the event
\* carries that name
C3_ArchiveAndAudit ==
    [][ (Returns /\ archive_dir # NoneVal /\ scp_result' = "ok") =>
          /\ src'[filename] = NoFile
          /\ \E x \in Suffixes :
               LET n == archive_filename(filename, x) IN
               /\ arch'[n] = src[filename]
               /\ Cardinality(EventRows') = 1
               /\ \A i \in EventRows' :
                    /\ history'[i].archive # NoneVal
                    /\ ArchiveNameOf(history'[i]) = n ]_vars

C3_Witness ==
    /\ pc = "idle" /\ raised = NoExc /\ clock > 0
    /\ archive_dir # NoneVal /\ scp_result = "ok"
    /\ src[filename] = NoFile
    /\ \E i \in EventRows : arch[ArchiveNameOf(history[i])] # NoFile

\* C4: handling an event for a file whose mime type is outside a non-empty
\* allow-set changes no file, copies nothing, writes no History row and
\* raises nothing; the connect is its only effect
C4_PolicySkip ==
    [][ /\ (pc \in {"idle", "connect"} /\ pc' # pc) =>
              UNCHANGED << src, dst, arch, history >>
        /\ ( /\ pc = "classify" /\ pc' # pc
             /\ src[filename] # NoFile
             /\ mime_types # NoneVal
             /\ mime_types.items # {}
             /\ src[filename].mime \notin mime_types.items ) =>
              /\ pc' = "idle"
              /\ raised' = NoExc
              /\ scp_result' = "notcalled"
              /\ UNCHANGED << src, arch, history, queue, ssh_opened >> ]_vars

C4_Witness ==
    /\ pc = "idle" /\ raised = NoExc /\ clock > 0
    /\ ssh_result = "ok"
    /\ mime_type \in Mimes
    /\ mime_types # NoneVal
    /\ mime_types.items # {}
    /\ mime_type \notin mime_types.items
    /\ putret.kind = "notcalled"
    /\ src[filename] # NoFile
    /\ history = <<>>

\* C5: with no allow-set (mime_types is None) the policy check raises
\* nothing and every classified event goes on to the copy step
C5_AcceptAll ==
    [][ ( /\ pc = "classify" /\ pc' # pc
          /\ src[filename] # NoFile
          /\ mime_types = NoneVal ) =>
           (pc' = "put" /\ raised' = NoExc) ]_vars

\* C6: when the source file is gone by the time the event is processed,
\* process_added ends without raising, put (if reached) returns a null
\* descriptor with the selection, and nothing is copied, archived, deleted
\* or recorded
C6_VanishedSource ==
    [][ ( /\ pc \in {"classify", "put"} /\ pc' # pc
          /\ strategy # "faulty"
          /\ src[filename] = NoFile ) =>
           /\ pc' = "idle"
           /\ raised' = NoExc
           /\ pc = "put" => (putret'.kind = "tuple" /\ putret'.items[1] = NoneVal)
           /\ UNCHANGED << src, dst, arch, history >> ]_vars

\* C7: when scp.put fails because the destination path is a directory, put
\* returns a null descriptor and process_added returns with the source file
\* in place, nothing archived and no History row
C7_IsADirectory ==
    [][ (pc = "put" /\ scp_result' = "IsADirectoryError") =>
          /\ dst[DestFilename'] = Dir
          /\ putret'.items[1] = NoneVal
          /\ pc' = "idle"
          /\ raised' = NoExc
          /\ UNCHANGED << src, dst, arch, history, queue >> ]_vars

C7_Witness ==
    /\ pc = "idle" /\ raised = NoExc
    /\ scp_result = "IsADirectoryError"
    /\ putret.kind = "tuple" /\ putret.items[1] = NoneVal
    /\ src[filename] # NoFile

\* C8: no History row exists whose file has not yet been moved into the
\* archive: the rename comes before the row
C8_RenameBeforeAudit ==
    \A i \in 1..Len(history) :
        history[i].archive # NoneVal => arch[ArchiveNameOf(history[i])] # NoFile

\* C9: the handler takes a file out of the watched folder (rename or remove)
\* only in an event whose scp.put succeeded, with the copy at the destination
C9_DisposeOnlyAfterCopy ==
    [][ (pc' # pc /\ (src' # src \/ arch' # arch)) =>
          /\ scp_result = "ok"
          /\ PutSucceeded
          /\ dst[DestFilename].kind = "file" ]_vars

C9_Witness ==
    /\ pc = "idle" /\ raised = NoExc /\ clock > 0
    /\ archive_dir = NoneVal
    /\ scp_result = "ok"
    /\ src[filename] = NoFile
    /\ dst[DestFilename].kind = "file"

\* C10: when ssh.connect fails with an authentication failure or a host key
\* mismatch, process_added raises an error of that kind naming the host (and
\* the user for an authentication failure), and the event does nothing else
C10_ConnectFailure ==
    [][ ( /\ pc = "connect" /\ pc' # pc
          /\ ssh_result' \in {"AuthenticationException", "BadHostKeyException"} ) =>
           /\ pc' = "idle"
           /\ raised'.type = ssh_result'
           /\ \E i \in 1..Len(raised'.args) : raised'.args[i] = hostname
           /\ ssh_result' = "AuthenticationException" =>
                 \E i \in 1..Len(raised'.args) : raised'.args[i] = user
           /\ mime_type' = NoneVal
           /\ scp_result' = "notcalled"
           /\ UNCHANGED << src, arch, history, queue, ssh_opened >> ]_vars

\* the step hands the first event of the queue to the handler
DispatchStep == pc = "idle" /\ queue # <<>> /\ queue' = Tail(queue)

C12_NoOpEvents ==
    [][ DispatchStep =>
          /\ Head(queue).event_type \in {"deleted", "moved"} =>
                UNCHANGED << pc, clock, src, dst, arch, history, ssh_opened, ssh_open,
                             raised, failed >>
          /\ pc' = "connect" => Head(queue).event_type \in {"created", "modified"} ]_vars

C12_Witness ==
    /\ printed.nothing_to_do
    /\ printed.event_type = "moved"
    /\ pc = "idle"
    /\ ssh_opened = 0
    /\ src[<<"n">>] # NoFile

\* C13: select_destination_dir returns exactly destination_dir when no
\* strategy is configured, and the result of a configured strategy as it is
C13_DefaultOrVerbatim ==
    ret.fn = "select_destination_dir" =>
        LET r == FolderHandlerSelect(strategy, ret.params[1], ret.params[2], destination_dir)
        IN  /\ strategy = "absent" =>
                 (ret.exc = NoExc /\ ret.value = PyStr(destination_dir))
            /\ (strategy # "absent" /\ r.exc = NoExc) =>
                 (ret.exc = NoExc /\ ret.value = r.value)

C13_Witness ==
    /\ ret.fn = "select_destination_dir"
    /\ strategy = "pair"
    /\ ret.value.kind = "tuple"

\* C14: a failure raised by a configured strategy leaves
\* select_destination_dir unchanged; it is never replaced by the default
C14_StrategyFailurePropagates ==
    ret.fn = "select_destination_dir" =>
        LET r == FolderHandlerSelect(strategy, ret.params[1], ret.params[2], destination_dir)
        IN  (strategy # "absent" /\ r.exc # NoExc) => ret.exc = r.exc

\* the folder of the rule of destination_dir that key names, or destination_dir
ExpectedSubdir(key) ==
    LET found == { r \in rules : /\ r.base_path = destination_dir
                                 /\ key \in {r.name, r.file_hint} }
    IN  IF found # {}
        THEN PyStr(PathJoin(destination_dir, (CHOOSE r \in found : TRUE).folder))
        ELSE PyStr(destination_dir)

\* C15: destination_subdir(key) returns the folder of the rule that key
\* names, or destination_dir when no rule matches, and never raises
C15_DestinationSubdir ==
    ret.fn = "destination_subdir" =>
        /\ ret.exc = NoExc
        /\ ret.value = ExpectedSubdir(ret.params[1])

\* C16: update_history takes the hint from a pair and no hint from anything
\* else, and the folder name from the last segment of the destination, or
\* "default" when the destination is not a str
C16_Normalisation ==
    (ret.fn = "update_history" /\ ret.exc = NoExc) =>
        LET sel  == ret.params[1]
            pair == sel.kind = "tuple" /\ Len(sel.items) = 2
            dd   == IF pair THEN sel.items[1] ELSE sel
            row  == history[Len(history)]
        IN  /\ row.remote_folder_hint = IF pair THEN sel.items[2] ELSE NoneVal
            /\ row.remote_folder =
                 IF dd.kind = "str" THEN PyStr(BaseName(dd.chars))
                 ELSE PyStr(<<"d", "e", "f", "a", "u", "l", "t">>)

\* C17: archive_filename(name.ext) is name_S.ext for a filename with exactly
\* one '.', and filename_S. for every other filename, with S five characters
\* of A-Z0-9
C17_ArchiveFilename ==
    ret.fn = "archive_filename" =>
        LET f    == ret.params[1]
            v    == ret.value.chars
            dots == { i \in 1..Len(f) : f[i] = "." }
            d    == CHOOSE i \in dots : TRUE
            name == IF Cardinality(dots) = 1 THEN SubSeq(f, 1, d - 1) ELSE f
            ext  == IF Cardinality(dots) = 1 THEN SubSeq(f, d + 1, Len(f)) ELSE <<>>
            S    == SubSeq(v, Len(name) + 2, Len(name) + 6)
        IN  /\ Len(v) = Len(name) + Len(ext) + 7
            /\ \A i \in 1..5 : S[i] \in Alphabet
            /\ v = name \o <<"_">> \o S \o <<".">> \o ext

C17_Witness ==
    /\ ret.fn = "archive_filename"
    /\ ret.params[1] = <<"a", ".", ".">>
    /\ ret.value.chars[Len(ret.value.chars)] = "."

\* C18: the routing rules of a destination folder are looked up at most once
\* in the life of a handler
C18_LookupAtMostOnce == lookups <= 1

\* C19: every created or modified event for a file enters process_added,
\* whatever the name of the file
C19_AllFilesDispatched ==
    [][ (DispatchStep /\ Head(queue).event_type \in {"created", "modified"}) =>
          (pc' = "connect" /\ event' = Head(queue)) ]_vars

\* C20: between events no session is open: every session process_added
\* opened is closed when it returns or raises
C20_NoOpenSessionBetweenEvents == pc = "idle" => ssh_open = 0

====
